---- MODULE Spec2Model ----
(***************************************************************************)
(* Model of the AISurvivalKit glue layer:                                  *)
(*   - LlamaService (src/src/services/LlamaService.ts): the Inference      *)
(*     Session Manager, a process-wide singleton around one engine handle. *)
(*   - AIChat (src/unnamed/part_002): the Chat Controller.                 *)
(*   - modelUtils (src/unnamed/part_000): the Model Store.                 *)
(*   - ModelDownloader (src/unnamed/part_001): the Download UI Controller. *)
(*   - App (src/unnamed/part_003): the App Shell.                          *)
(*                                                                         *)
(* JavaScript runs one handler at a time; a handler runs until its first   *)
(* await, and the continuation of an await runs when the awaited native    *)
(* operation resolves.  Each action below is therefore either the          *)
(* synchronous prefix of a handler (up to its first await on a native      *)
(* operation) or the continuation that runs when one native operation      *)
(* resolves, including the continuations of the callers that were awaiting *)
(* it (they run as microtasks before any other event is delivered).        *)
(*                                                                         *)
(* Five specifications share the variables:                                *)
(*   SpecService   callers invoke init / generateResponse / cleanup of the *)
(*                 LlamaService directly;                                  *)
(*   SpecChat      the AIChat component drives the LlamaService through    *)
(*                 its effect (mount, change of modelPath, unmount) and    *)
(*                 its onSend handler;                                     *)
(*   SpecDownload  the ModelDownloader component and the Model Store;      *)
(*   SpecStore     a caller invokes the functions of the Model Store       *)
(*                 directly, one at a time;                                *)
(*   SpecApp       the App starts, lists the local models and renders the  *)
(*                 ModelDownloader or the AIChat.                          *)
(***************************************************************************)
EXTENDS Integers, Sequences, FiniteSets, Bags, TLC

(***************************************************************************)
(* Bounds of the model.                                                    *)
(***************************************************************************)
\* number of native operations (engine init / completion / release) that
\* may be unresolved at the same time
MaxInFlight == 2
\* number of engine handles the engine constructs in one behaviour
MaxHandles == 2
\* length the chat message list may reach
MaxMessages == 5
\* number of confirmation dialogs the user opens in one behaviour
MaxDialogs == 3
\* number of times the effect of AIChat runs in one behaviour (mounts and
\* changes of modelPath together)
MaxBinds == 2
\* number of confirmation dialogs the user opens in the ModelDownloader
\* that the App renders
MaxAppDialogs == 2

(***************************************************************************)
(* Values.                                                                 *)
(***************************************************************************)
\* model file paths handed to init (getModelPath of a registry entry)
Paths == {"/models/gemma-2-2b-it-IQ4_XS.gguf", "/models/phi-2.Q4_K_M.gguf"}

\* the ways a caller can leave the model path out of init's options
Empty == ""                \* init({modelPath: ''})
Undefined == "undefined"   \* init({modelPath: undefined})
Absent == "absent"         \* init() or init({})
InitOpts == Paths \cup {Empty, Undefined, Absent}

\* availableModels, each descriptor named by its localPath
availableModels == {"gemma-2-2b-it-IQ4_XS.gguf", "phi-2.Q4_K_M.gguf"}

\* getModelPath: `${getModelsDir()}/${modelFileName}`
getModelPath(modelFileName) ==
  CASE modelFileName = "gemma-2-2b-it-IQ4_XS.gguf" -> "/models/gemma-2-2b-it-IQ4_XS.gguf"
    [] modelFileName = "phi-2.Q4_K_M.gguf" -> "/models/phi-2.Q4_K_M.gguf"

\* entries a models directory may hold besides downloaded models: a file
\* that is not a model and a sub-directory whose name ends with .gguf
OtherEntries == {"notes.txt", "archive.gguf"}
Entries == availableModels \cup OtherEntries
\* ReadDirItem.isFile()
IsFile(name) == name # "archive.gguf"
\* name.endsWith('.gguf')
EndsWithGguf(name) == name \in availableModels \cup {"archive.gguf"}

\* currentlyDownloading === null
NoModel == ""
\* downloadProgress has no entry for a descriptor
NoProgress == -1
\* bytesWritten / contentLength of a progress report, in percent
Fractions == {50}

\* this.context === null
Null == [hid |-> 0, model |-> ""]

\* texts are sequences of characters
Space == " "
Trim(s) ==
  LET idx == {i \in 1..Len(s) : s[i] # Space}
  IN  IF idx = {} THEN <<>>
      ELSE LET lo == CHOOSE i \in idx : \A j \in idx : i <= j
               hi == CHOOSE i \in idx : \A j \in idx : j <= i
           IN  SubSeq(s, lo, hi)

\* the placeholder of the prompt template, one token of the template
Placeholder == "{prompt}"

\* defaultOptions.promptTemplate:
\* '<start_of_turn>user\n{prompt}<end_of_turn>\n<start_of_turn>model\n'
DefaultTemplate == <<"<start_of_turn>user\n", Placeholder, "<end_of_turn>\n<start_of_turn>model\n">>

RECURSIVE Expand(_, _, _)
\* String.prototype.replace with a string pattern interprets the replacement
\* text: "$$" inserts "$", "$&" inserts the matched text, "$`" the text
\* before the match and "$'" the text after it; any other text is copied.
Expand(r, before, after) ==
  IF r = <<>> THEN <<>>
  ELSE IF Len(r) >= 2 /\ r[1] = "$" /\ r[2] = "$"
       THEN <<"$">> \o Expand(SubSeq(r, 3, Len(r)), before, after)
  ELSE IF Len(r) >= 2 /\ r[1] = "$" /\ r[2] = "&"
       THEN <<Placeholder>> \o Expand(SubSeq(r, 3, Len(r)), before, after)
  ELSE IF Len(r) >= 2 /\ r[1] = "$" /\ r[2] = "`"
       THEN before \o Expand(SubSeq(r, 3, Len(r)), before, after)
  ELSE IF Len(r) >= 2 /\ r[1] = "$" /\ r[2] = "'"
       THEN after \o Expand(SubSeq(r, 3, Len(r)), before, after)
  ELSE <<r[1]>> \o Expand(Tail(r), before, after)

\* template.replace('{prompt}', prompt): the first occurrence only
Replace(template, prompt) ==
  LET occ == {i \in 1..Len(template) : template[i] = Placeholder}
  IN  IF occ = {} THEN template
      ELSE LET k == CHOOSE i \in occ : \A j \in occ : i <= j
               before == SubSeq(template, 1, k - 1)
               after == SubSeq(template, k + 1, Len(template))
           IN  before \o Expand(prompt, before, after) \o after

\* generateResponse lines 63-68
FormattedPrompt(template, prompt) ==
  IF template # <<>> THEN Replace(template, prompt) ELSE prompt

\* texts the user of the chat sends
UserTexts == {<<"h", "i">>}
\* prompts a caller hands to generateResponse
Prompts == {<<"h", "i">>, <<"$", "$">>}
\* texts the engine returns from a completion
EngineTexts == {<<"o", "k">>, <<Space, "o", "k", Space>>}

\* AIChat line 110
FallbackText == <<"Sorry, I encountered an error while processing your request.">>
\* AIChat line 21 / part_003 line 113
WelcomeText == <<"Hello! I am your AI assistant.">>
\* App line 47
NoModelsText == "No language models found. Please add a model to the models directory."
\* AIChat line 54
InitFailedText == "Failed to initialize the AI model"

\* IMessage: user 1 is the person typing, user 2 is the AI Assistant
UserMessage(t) == [text |-> t, user |-> 1]
AiMessage(t) == [text |-> t, user |-> 2]

\* GiftedChat.append(previousMessages, newMessages): the list is kept
\* newest first (inverted)
GiftedAppend(previousMessages, newMessages) == newMessages \o previousMessages

VARIABLES
  \* LlamaService
  isInitialized,      \* LlamaService.isInitialized
  context,            \* LlamaService.context: a handle or Null
  defaultModelPath,   \* LlamaService.defaultOptions.modelPath
  \* the inference engine (llama.rn)
  live,               \* handles constructed and not released
  nextHandle,         \* number of handles constructed so far
  ops,                \* native engine operations that are unresolved
  \* AIChat
  mounted,            \* the component is mounted
  modelPath,          \* prop modelPath
  inst,               \* which mount of the component this is
  bind,               \* which run of the effect this is
  messages,           \* state messages
  isProcessing,       \* state isProcessing
  chatIsInitialized,  \* state isInitialized
  initError,          \* state initError, "" for null
  \* the file system
  dirExists,          \* the models directory exists
  files,              \* names of the files in the models directory
  \* ModelDownloader
  modalVisible,       \* state modalVisible
  downloadProgress,   \* state downloadProgress
  currentlyDownloading, \* state currentlyDownloading, NoModel for null
  dialogs,            \* open 'Download Model' confirmation dialogs
  downloads,          \* downloadModel calls that are unresolved
  nextDownload,       \* number of downloadModel calls so far
  nextDialog,         \* number of confirmation dialogs opened so far
  notices,            \* open 'Download Complete' notices
  alert,              \* title of the alert the last handler showed
  \* App
  isLoading,          \* state isLoading
  appModelPath,       \* state modelPath of App, "" for null
  error,              \* state error, "" for null
  \* a caller of the Model Store other than the ModelDownloader
  call,               \* its unresolved call of a Model Store function
  returns,            \* what its last two calls returned, newest last
  \* history
  started,            \* the descriptor of each downloadModel call
  notified,           \* the calls of onModelDownloaded
  failed,             \* the downloadModel calls that threw
  relSince,           \* cleanup has returned and no init was called or
                      \* unresolved since
  awaited,            \* how far the direct caller is in the sequence
                      \* init(A), cleanup(), init(B), each call awaited
                      \* before the next
  ev                  \* the handler or continuation of LlamaService or
                      \* AIChat that ran last

chatVars == <<mounted, modelPath, inst, bind, messages, isProcessing, chatIsInitialized, initError>>
llmVars == <<isInitialized, context, defaultModelPath, live, nextHandle, ops,
             mounted, modelPath, inst, bind, messages, isProcessing,
             chatIsInitialized, initError, relSince, awaited>>
dlVars == <<dirExists, files, modalVisible, downloadProgress, currentlyDownloading,
            dialogs, downloads, nextDownload, nextDialog, notices, alert, started, notified, failed,
            call, returns, isLoading, appModelPath, error>>
appVars == <<isLoading, appModelPath, error>>
vars == <<isInitialized, context, defaultModelPath, live, nextHandle, ops,
          mounted, modelPath, inst, bind, messages, isProcessing,
          chatIsInitialized, initError,
          dirExists, files, modalVisible, downloadProgress, currentlyDownloading,
          dialogs, downloads, nextDownload, nextDialog, notices, alert, started, notified, failed,
          call, returns, isLoading, appModelPath, error,
          relSince, awaited, ev>>

\* name: the handler or continuation; res: its outcome; val: the text it
\* carried; of: the AIChat mount it belongs to (0: a direct caller).  The
\* event of a generateResponse call that reached the engine has the field
\* prompt as well: val is the text sent to the engine, prompt the argument.
\* The event of a direct call of init has the field opt: the model path
\* option the caller passed.
Event(n, r, v, i) == [name |-> n, res |-> r, val |-> v, of |-> i]

\* an unresolved native operation: kind is "init" (initLlama), "gen"
\* (context.completion) or "release" (context.release); h is the handle it
\* was called on; inst/bind say which AIChat mount and which run of its
\* effect issued it (inst 0: a direct caller of the service).  ops is the
\* bag of the unresolved operations.
Op(k, h, p, n, b) ==
  [kind |-> k, h |-> h, path |-> p, inst |-> n, bind |-> b]

\* steps of the awaited sequence: 1 init(A) called, 2 it returned true
\* with handle hA, 3 cleanup called, 4 it returned after the release,
\* 5 init(B) called with B # A, 6 it returned true; 0: no such sequence
NoSequence == [step |-> 0, pathA |-> "", hA |-> 0, pathB |-> ""]

\* the id of the downloadModel call of a caller other than the
\* ModelDownloader (the calls of the ModelDownloader are numbered from 1)
Direct == 0

\* no call of the Model Store is unresolved
NoCall == [fn |-> "", arg |-> "", pc |-> "", by |-> "", err |-> FALSE]

Issue(o, op) == o (+) SetToBag({op})
Settle(o, op) == o (-) SetToBag({op})
Pending(k) == {x \in BagToSet(ops) : x.kind = k}

\* the program before any handler has run
Started ==
  /\ isInitialized = FALSE
  /\ context = Null
  /\ defaultModelPath = Empty
  /\ live = {}
  /\ nextHandle = 0
  /\ ops = EmptyBag
  /\ mounted = FALSE
  /\ modelPath = Empty
  /\ inst = 0
  /\ bind = 0
  /\ messages = <<>>
  /\ isProcessing = FALSE
  /\ chatIsInitialized = FALSE
  /\ initError = ""
  /\ modalVisible = FALSE
  /\ downloadProgress = [m \in availableModels |-> NoProgress]
  /\ currentlyDownloading = NoModel
  /\ dialogs = <<>>
  /\ downloads = {}
  /\ nextDownload = 0
  /\ nextDialog = 0
  /\ notices = <<>>
  /\ alert = "none"
  /\ started = <<>>
  /\ notified = <<>>
  /\ failed = {}
  /\ call = NoCall
  /\ returns = <<>>
  /\ isLoading = TRUE
  /\ appModelPath = ""
  /\ error = ""
  /\ relSince = FALSE
  /\ awaited = NoSequence
  /\ ev = Event("start", "", <<>>, 0)

\* a fresh installation: the models directory does not exist yet
FreshInstall ==
  /\ dirExists = FALSE
  /\ files = {}

Init == FreshInstall /\ Started

(***************************************************************************)
(* LlamaService                                                            *)
(***************************************************************************)
\* init line 28: { ...this.defaultOptions, ...options }.modelPath
MergedModelPath(opt) ==
  IF opt = Absent THEN defaultModelPath
  ELSE IF opt = Undefined THEN Empty
  ELSE opt

\* init lines 26-44, up to the await: the operations unresolved after the
\* call, given the operations o unresolved before it
InitCall(o, opt, n, b) ==
  IF MergedModelPath(opt) = Empty THEN o
  ELSE Issue(o, Op("init", Null, MergedModelPath(opt), n, b))

\* cleanup lines 90-94, up to the await
CleanupCall(o, n, b) ==
  IF context # Null
  THEN Issue(o, Op("release", context, "", n, b))
  ELSE o

\* generateResponse lines 58-80, up to the await
GenerateCall(o, n) ==
  IF ~isInitialized \/ context = Null THEN o
  ELSE Issue(o, Op("gen", context, "", n, 0))

\* the AIChat state after the continuation of initLlama (lines 38-55) has
\* run for the mount n with init's result ok; it changes nothing when that
\* mount is gone (React drops state updates of an unmounted component)
InitContinuation(n, ok) ==
  IF mounted /\ n = inst
  THEN IF ok
       THEN /\ chatIsInitialized' = TRUE
            /\ initError' = ""
            /\ messages' = <<AiMessage(WelcomeText)>>
            /\ UNCHANGED <<mounted, modelPath, inst, bind, isProcessing>>
       ELSE /\ initError' = InitFailedText
            /\ UNCHANGED <<mounted, modelPath, inst, bind, messages, isProcessing, chatIsInitialized>>
  ELSE UNCHANGED chatVars

\* the AIChat state after the continuation of onSend (lines 87-124) has run
\* for the mount n: reply is the entry it appends
SendContinuation(n, reply) ==
  IF mounted /\ n = inst
  THEN /\ messages' = GiftedAppend(messages, <<reply>>)
       /\ isProcessing' = FALSE
       /\ UNCHANGED <<mounted, modelPath, inst, bind, chatIsInitialized, initError>>
  ELSE UNCHANGED chatVars

\* initLlama resolves with a new handle (init lines 38-49)
InitSucceeds ==
  \E op \in Pending("init") :
    /\ UNCHANGED dlVars
    /\ nextHandle < MaxHandles
    /\ LET h == [hid |-> nextHandle + 1, model |-> op.path]
       IN  /\ live' = live \cup {h}
           /\ context' = h
    /\ nextHandle' = nextHandle + 1
    /\ isInitialized' = TRUE
    /\ defaultModelPath' = op.path
    /\ ops' = Settle(ops, op)
    /\ InitContinuation(op.inst, TRUE)
    /\ ev' = Event("initReturned", "true", <<>>, op.inst)
    /\ awaited' = IF awaited.step = 1
                  THEN [awaited EXCEPT !.step = 2, !.hA = nextHandle + 1]
                  ELSE IF awaited.step = 5
                  THEN [awaited EXCEPT !.step = 6]
                  ELSE NoSequence
    /\ UNCHANGED relSince

\* InitFails without the catch block's reset of the service state
InitFails_KeepsState ==
  \E op \in Pending("init") :
    /\ UNCHANGED dlVars
    /\ ops' = Settle(ops, op)
    /\ InitContinuation(op.inst, FALSE)
    /\ ev' = Event("initReturned", "false", <<>>, op.inst)
    /\ awaited' = NoSequence
    /\ UNCHANGED <<isInitialized, context, defaultModelPath, live, nextHandle, relSince>>

\* initLlama rejects (init lines 50-55)
InitFails ==
  \E op \in Pending("init") :
    /\ UNCHANGED dlVars
    /\ context' = Null
    /\ isInitialized' = FALSE
    /\ ops' = Settle(ops, op)
    /\ InitContinuation(op.inst, FALSE)
    /\ ev' = Event("initReturned", "false", <<>>, op.inst)
    /\ awaited' = NoSequence
    /\ UNCHANGED <<defaultModelPath, live, nextHandle, relSince>>

\* ReleaseSucceeds with an engine that keeps the handle
ReleaseSucceeds_KeepsHandle ==
  \E op \in Pending("release") :
    /\ UNCHANGED dlVars
    /\ context' = Null
    /\ isInitialized' = FALSE
    /\ ops' = Settle(ops, op)
    /\ relSince' = (Pending("init") = {})
    /\ ev' = Event("cleanupReturned", "released", <<>>, 0)
    /\ awaited' = IF awaited.step = 3 THEN [awaited EXCEPT !.step = 4] ELSE NoSequence
    /\ UNCHANGED <<defaultModelPath, nextHandle, live>>
    /\ UNCHANGED chatVars

\* context.release() resolves (cleanup lines 95-97)
ReleaseSucceeds ==
  \E op \in Pending("release") :
    /\ UNCHANGED dlVars
    /\ live' = live \ {op.h}
    /\ context' = Null
    /\ isInitialized' = FALSE
    /\ ops' = Settle(ops, op)
    /\ relSince' = (Pending("init") = {})
    /\ ev' = Event("cleanupReturned", "released", <<>>, 0)
    /\ awaited' = IF awaited.step = 3 THEN [awaited EXCEPT !.step = 4] ELSE NoSequence
    /\ UNCHANGED <<defaultModelPath, nextHandle>>
    /\ UNCHANGED chatVars

\* context.release() rejects (cleanup lines 98-100): the error is logged
ReleaseFails ==
  \E op \in Pending("release") :
    /\ UNCHANGED dlVars
    /\ ops' = Settle(ops, op)
    /\ relSince' = (Pending("init") = {})
    /\ ev' = Event("cleanupReturned", "teardownError", <<>>, 0)
    /\ awaited' = NoSequence
    /\ UNCHANGED <<isInitialized, context, defaultModelPath, live, nextHandle>>
    /\ UNCHANGED chatVars

\* context.completion resolves with text t (generateResponse lines 82-83);
\* onSend appends the response (AIChat lines 90-103, 123)
GenerateSucceeds(t) ==
  \E op \in Pending("gen") :
    /\ UNCHANGED dlVars
    /\ ops' = Settle(ops, op)
    /\ SendContinuation(op.inst, AiMessage(Trim(Trim(t))))
    /\ ev' = Event("generateReturned", "text", Trim(t), op.inst)
    /\ awaited' = NoSequence
    /\ UNCHANGED <<isInitialized, context, defaultModelPath, live, nextHandle, relSince>>

\* GenerateFails with the error swallowed: no fallback message is appended
GenerateFails_NoFallback ==
  \E op \in Pending("gen") :
    /\ UNCHANGED dlVars
    /\ ops' = Settle(ops, op)
    /\ IF mounted /\ op.inst = inst
       THEN /\ isProcessing' = FALSE
            /\ UNCHANGED <<mounted, modelPath, inst, bind, messages, chatIsInitialized, initError>>
       ELSE UNCHANGED chatVars
    /\ ev' = Event("generateReturned", "error", <<>>, op.inst)
    /\ awaited' = NoSequence
    /\ UNCHANGED <<isInitialized, context, defaultModelPath, live, nextHandle, relSince>>

\* context.completion rejects (generateResponse lines 84-87); onSend
\* appends the fallback message (AIChat lines 104-124)
GenerateFails ==
  \E op \in Pending("gen") :
    /\ UNCHANGED dlVars
    /\ ops' = Settle(ops, op)
    /\ SendContinuation(op.inst, AiMessage(FallbackText))
    /\ ev' = Event("generateReturned", "error", <<>>, op.inst)
    /\ awaited' = NoSequence
    /\ UNCHANGED <<isInitialized, context, defaultModelPath, live, nextHandle, relSince>>

(***************************************************************************)
(* Direct callers of the LlamaService                                      *)
(***************************************************************************)
\* a caller invokes LlamaService.init(options)
SvcInit(opt) ==
  /\ UNCHANGED dlVars
  /\ BagCardinality(InitCall(ops, opt, 0, 0)) <= MaxInFlight
  /\ ops' = InitCall(ops, opt, 0, 0)
  /\ relSince' = FALSE
  /\ ev' = [opt |-> opt]
           @@ Event("init", IF MergedModelPath(opt) = Empty THEN "false" ELSE "called", <<>>, 0)
  /\ awaited' = IF MergedModelPath(opt) = Empty \/ ops # EmptyBag
                THEN NoSequence
                ELSE IF awaited.step = 4 /\ MergedModelPath(opt) # awaited.pathA
                THEN [awaited EXCEPT !.step = 5, !.pathB = MergedModelPath(opt)]
                ELSE [NoSequence EXCEPT !.step = 1, !.pathA = MergedModelPath(opt)]
  /\ UNCHANGED <<isInitialized, context, defaultModelPath, live, nextHandle>>
  /\ UNCHANGED chatVars

\* a caller invokes LlamaService.cleanup()
SvcCleanup ==
  /\ UNCHANGED dlVars
  /\ BagCardinality(CleanupCall(ops, 0, 0)) <= MaxInFlight
  /\ ops' = CleanupCall(ops, 0, 0)
  /\ relSince' = IF context = Null THEN (Pending("init") = {}) ELSE relSince
  /\ ev' = Event("cleanup", IF context = Null THEN "noop" ELSE "called", <<>>, 0)
  /\ awaited' = IF awaited.step = 2 /\ context # Null /\ ops = EmptyBag
                THEN [awaited EXCEPT !.step = 3]
                ELSE NoSequence
  /\ UNCHANGED <<isInitialized, context, defaultModelPath, live, nextHandle>>
  /\ UNCHANGED chatVars

\* a caller invokes LlamaService.generateResponse(prompt)
SvcGenerate(prompt) ==
  /\ UNCHANGED dlVars
  /\ BagCardinality(GenerateCall(ops, 0)) <= MaxInFlight
  /\ ops' = GenerateCall(ops, 0)
  /\ ev' = IF ~isInitialized \/ context = Null
           THEN Event("generate", "notInitialized", <<>>, 0)
           ELSE [prompt |-> prompt]
                  @@ Event("generate", "sent", FormattedPrompt(DefaultTemplate, prompt), 0)
  /\ awaited' = NoSequence
  /\ UNCHANGED <<isInitialized, context, defaultModelPath, live, nextHandle, relSince>>
  /\ UNCHANGED chatVars

NextService ==
  \/ \E opt \in InitOpts : SvcInit(opt)
  \/ SvcCleanup
  \/ \E p \in Prompts : SvcGenerate(p)
  \/ InitSucceeds
  \/ InitFails
  \/ ReleaseSucceeds
  \/ ReleaseFails
  \/ \E t \in EngineTexts : GenerateSucceeds(t)
  \/ GenerateFails

SpecService == Init /\ [][NextService]_vars

(***************************************************************************)
(* AIChat                                                                  *)
(***************************************************************************)
\* values of the prop modelPath (optional: it may be undefined)
ChatPaths == Paths \cup {Undefined}

\* the unresolved completions whose onSend belongs to the current mount
OwnGenerations ==
  [x \in {y \in Pending("gen") : mounted /\ y.inst = inst} |-> ops[x]]

\* the component mounts with modelPath p: the effect runs initLlama
\* (AIChat lines 24-36, 62)
Mount(p) ==
  /\ UNCHANGED dlVars
  /\ UNCHANGED awaited
  /\ ~mounted
  /\ bind < MaxBinds
  /\ BagCardinality(InitCall(ops, p, inst + 1, bind + 1)) <= MaxInFlight
  /\ mounted' = TRUE
  /\ modelPath' = p
  /\ inst' = inst + 1
  /\ bind' = bind + 1
  /\ messages' = <<>>
  /\ isProcessing' = FALSE
  /\ chatIsInitialized' = FALSE
  /\ initError' = IF MergedModelPath(p) = Empty THEN InitFailedText ELSE ""
  /\ ops' = InitCall(ops, p, inst + 1, bind + 1)
  /\ relSince' = FALSE
  /\ ev' = Event("mount", IF MergedModelPath(p) = Empty THEN "false" ELSE "called", <<>>, inst + 1)
  /\ UNCHANGED <<isInitialized, context, defaultModelPath, live, nextHandle>>

\* the prop modelPath changes to p: React runs the cleanup of the previous
\* effect (lines 65-67), which calls LlamaService.cleanup() without
\* awaiting it, and then the effect again (lines 31-62)
Rebind(p) ==
  /\ UNCHANGED dlVars
  /\ UNCHANGED awaited
  /\ mounted
  /\ p # modelPath
  /\ bind < MaxBinds
  /\ BagCardinality(InitCall(CleanupCall(ops, inst, bind), p, inst, bind + 1)) <= MaxInFlight
  /\ modelPath' = p
  /\ bind' = bind + 1
  /\ chatIsInitialized' = FALSE
  /\ initError' = IF MergedModelPath(p) = Empty THEN InitFailedText ELSE initError
  /\ ops' = InitCall(CleanupCall(ops, inst, bind), p, inst, bind + 1)
  /\ relSince' = FALSE
  /\ ev' = Event("rebind", IF MergedModelPath(p) = Empty THEN "false" ELSE "called", <<>>, inst)
  /\ UNCHANGED <<mounted, inst, messages, isProcessing>>
  /\ UNCHANGED <<isInitialized, context, defaultModelPath, live, nextHandle>>

\* the component unmounts: the cleanup of the effect runs (lines 65-67)
\* and the component's state is dropped
Unmount ==
  /\ UNCHANGED dlVars
  /\ UNCHANGED awaited
  /\ mounted
  /\ BagCardinality(CleanupCall(ops, inst, bind)) <= MaxInFlight
  /\ mounted' = FALSE
  /\ modelPath' = Empty
  /\ messages' = <<>>
  /\ isProcessing' = FALSE
  /\ chatIsInitialized' = FALSE
  /\ initError' = ""
  /\ ops' = CleanupCall(ops, inst, bind)
  /\ relSince' = IF context = Null THEN (Pending("init") = {}) ELSE relSince
  /\ ev' = Event("unmount", IF context = Null THEN "noop" ELSE "called", <<>>, inst)
  /\ UNCHANGED <<inst, bind>>
  /\ UNCHANGED <<isInitialized, context, defaultModelPath, live, nextHandle>>

\* the user sends a message with text t (onSend lines 71-87).  When the
\* service is not initialized generateResponse rejects at once and the
\* catch and finally blocks (lines 104-124) run before any other event.
OnSend(t) ==
  /\ UNCHANGED dlVars
  /\ UNCHANGED awaited
  /\ mounted
  /\ BagCardinality(GenerateCall(ops, inst)) <= MaxInFlight
  /\ Len(messages) + BagCardinality(OwnGenerations) + 2 <= MaxMessages
  /\ ops' = GenerateCall(ops, inst)
  /\ IF ~isInitialized \/ context = Null
     THEN /\ messages' = GiftedAppend(GiftedAppend(messages, <<UserMessage(t)>>), <<AiMessage(FallbackText)>>)
          /\ isProcessing' = FALSE
          /\ ev' = Event("onSend", "notInitialized", t, inst)
     ELSE /\ messages' = GiftedAppend(messages, <<UserMessage(t)>>)
          /\ isProcessing' = TRUE
          /\ ev' = Event("onSend", "sent", t, inst)
  /\ UNCHANGED <<mounted, modelPath, inst, bind, chatIsInitialized, initError>>
  /\ UNCHANGED <<isInitialized, context, defaultModelPath, live, nextHandle, relSince>>

\* onSend is called with no message (line 72)
OnSendEmpty ==
  /\ UNCHANGED dlVars
  /\ UNCHANGED awaited
  /\ mounted
  /\ ev' = Event("onSend", "empty", <<>>, inst)
  /\ UNCHANGED <<isInitialized, context, defaultModelPath, live, nextHandle, ops, relSince>>
  /\ UNCHANGED chatVars

NextChat ==
  \/ \E p \in ChatPaths : Mount(p)
  \/ \E p \in ChatPaths : Rebind(p)
  \/ Unmount
  \/ \E t \in UserTexts : OnSend(t)
  \/ OnSendEmpty
  \/ InitSucceeds
  \/ InitFails
  \/ ReleaseSucceeds
  \/ ReleaseFails
  \/ \E t \in EngineTexts : GenerateSucceeds(t)
  \/ GenerateFails

SpecChat == Init /\ [][NextChat]_vars

(***************************************************************************)
(* Model Store (downloadModel) and ModelDownloader                         *)
(***************************************************************************)
\* an unresolved downloadModel call: pc names the native operation it is
\* awaiting: "existsDir" (ensureModelsDir line 59), "mkdir" (line 61),
\* "existsFile" (checkModelExists line 42), "transfer" (downloadModel
\* line 99)
Download(i, m, pc) == [id |-> i, model |-> m, pc |-> pc]

\* s without its i-th element
RemoveAt(s, i) == SubSeq(s, 1, i - 1) \o SubSeq(s, i + 1, Len(s))

\* the 'Download Models' button (ModelDownloader line 127)
OpenModal ==
  /\ ~modalVisible
  /\ modalVisible' = TRUE
  /\ UNCHANGED ev
  /\ UNCHANGED <<dirExists, files, downloadProgress, currentlyDownloading, dialogs,
                 downloads, nextDownload, nextDialog, notices, started, notified, failed>>
  /\ alert' = "none"
  /\ UNCHANGED <<llmVars, appVars>>
  /\ UNCHANGED <<call, returns>>

\* the 'Close' button or the back button (lines 136, 151)
CloseModal ==
  /\ modalVisible
  /\ modalVisible' = FALSE
  /\ UNCHANGED ev
  /\ UNCHANGED <<dirExists, files, downloadProgress, currentlyDownloading, dialogs,
                 downloads, nextDownload, nextDialog, notices, started, notified, failed>>
  /\ alert' = "none"
  /\ UNCHANGED <<llmVars, appVars>>
  /\ UNCHANGED <<call, returns>>

\* the user taps 'Download' on the item of model (handleDownload lines
\* 32-47, 83-90); the item shows the button unless it is the one being
\* downloaded (lines 94, 104-118).  The dialog's Download handler closes
\* over the downloadProgress of this render (line 53).
handleDownload(model) ==
  /\ modalVisible
  /\ currentlyDownloading # model
  /\ IF currentlyDownloading # NoModel
     THEN /\ alert' = "Download in Progress"
          /\ UNCHANGED ev
          /\ UNCHANGED <<dialogs, nextDialog>>
     ELSE /\ nextDialog < MaxDialogs
          /\ dialogs' = Append(dialogs, [model |-> model, snap |-> downloadProgress])
          /\ nextDialog' = nextDialog + 1
          /\ alert' = "Download Model"
          /\ UNCHANGED ev
  /\ UNCHANGED <<dirExists, files, modalVisible, downloadProgress, currentlyDownloading,
                 downloads, nextDownload, notices, started, notified, failed>>
  /\ UNCHANGED <<llmVars, appVars>>
  /\ UNCHANGED <<call, returns>>

\* the user answers the i-th open confirmation dialog with Cancel
\* (lines 44-47)
AnswerCancel(i) ==
  /\ i \in 1..Len(dialogs)
  /\ dialogs' = RemoveAt(dialogs, i)
  /\ UNCHANGED ev
  /\ UNCHANGED <<dirExists, files, modalVisible, downloadProgress, currentlyDownloading,
                 downloads, nextDownload, nextDialog, notices, started, notified, failed>>
  /\ alert' = "none"
  /\ UNCHANGED <<llmVars, appVars>>
  /\ UNCHANGED <<call, returns>>

\* the user answers the i-th open confirmation dialog with Download
\* (lines 50-58): the handler runs up to the first await of downloadModel,
\* RNFS.exists(modelsDir) in ensureModelsDir
AnswerDownload(i) ==
  /\ i \in 1..Len(dialogs)
  /\ dialogs' = RemoveAt(dialogs, i)
  /\ currentlyDownloading' = dialogs[i].model
  /\ downloadProgress' = [dialogs[i].snap EXCEPT ![dialogs[i].model] = 0]
  /\ downloads' = downloads \cup {Download(nextDownload + 1, dialogs[i].model, "existsDir")}
  /\ nextDownload' = nextDownload + 1
  /\ started' = Append(started, dialogs[i].model)
  /\ UNCHANGED ev
  /\ UNCHANGED <<dirExists, files, modalVisible, nextDialog, notices, notified, failed>>
  /\ alert' = "none"
  /\ UNCHANGED <<llmVars, appVars>>
  /\ UNCHANGED <<call, returns>>

\* what a call of a Model Store function returned to the caller: res is
\* "returned" or "threw"; transferred says that downloadModel started a
\* transfer, err that an I/O step of the call failed and was swallowed
Return(fn, arg, res, path, names, exists, transferred, err) ==
  [fn |-> fn, arg |-> arg, res |-> res, path |-> path, names |-> names,
   exists |-> exists, transferred |-> transferred, err |-> err]

Push(rs, e) == IF Len(rs) < 2 THEN Append(rs, e) ELSE <<rs[2], e>>

\* downloadModel of d returns or throws to a caller other than the
\* ModelDownloader (lines 83, 103, 109)
DirectReturns(d, res) ==
  /\ downloads' = downloads \ {d}
  /\ returns' = Push(returns, Return("downloadModel", d.model, res,
                                     IF res = "returned" THEN getModelPath(d.model) ELSE "",
                                     <<>>, FALSE, d.pc = "transfer", call.err))
  /\ call' = NoCall
  /\ alert' = "none"
  /\ UNCHANGED ev
  /\ UNCHANGED <<modalVisible, downloadProgress, currentlyDownloading, dialogs,
                 nextDownload, nextDialog, notices, started, notified, failed>>

\* Completes with the caller notified as soon as the download returns
Completes_NotifiesAtOnce(d) ==
  /\ downloads' = downloads \ {d}
  /\ notified' = Append(notified, [id |-> d.id, path |-> getModelPath(d.model)])
  /\ alert' = "Download Complete"
  /\ currentlyDownloading' = NoModel
  /\ UNCHANGED ev
  /\ UNCHANGED <<modalVisible, downloadProgress, dialogs, nextDownload, nextDialog, started, notices, failed>>
  /\ UNCHANGED <<call, returns>>

\* downloadModel of d returns its path (lines 83, 103): the handler shows
\* the completion notice (lines 61-72) and clears the marker (line 79)
Completes(d) ==
  IF d.id = Direct THEN DirectReturns(d, "returned")
  ELSE
  /\ downloads' = downloads \ {d}
  /\ notices' = Append(notices, [id |-> d.id, path |-> getModelPath(d.model)])
  /\ alert' = "Download Complete"
  /\ currentlyDownloading' = NoModel
  /\ UNCHANGED ev
  /\ UNCHANGED <<modalVisible, downloadProgress, dialogs, nextDownload, nextDialog, started, notified, failed>>
  /\ UNCHANGED <<call, returns>>

\* Throws without the finally block that clears the marker
Throws_KeepsMarker(d) ==
  /\ downloads' = downloads \ {d}
  /\ alert' = "Download Failed"
  /\ failed' = failed \cup {d.id}
  /\ UNCHANGED ev
  /\ UNCHANGED <<modalVisible, downloadProgress, currentlyDownloading, dialogs,
                 nextDownload, nextDialog, notices, started, notified>>
  /\ UNCHANGED <<call, returns>>

\* downloadModel of d throws (lines 107-110): the handler shows the
\* failure alert (lines 73-77) and clears the marker (line 79)
Throws(d) ==
  IF d.id = Direct THEN DirectReturns(d, "threw")
  ELSE
  /\ downloads' = downloads \ {d}
  /\ alert' = "Download Failed"
  /\ currentlyDownloading' = NoModel
  /\ failed' = failed \cup {d.id}
  /\ UNCHANGED ev
  /\ UNCHANGED <<modalVisible, downloadProgress, dialogs, nextDownload, nextDialog, notices, started, notified>>
  /\ UNCHANGED <<call, returns>>

\* d continues with the native operation pc
Awaits(d, pc) ==
  /\ downloads' = (downloads \ {d}) \cup {Download(d.id, d.model, pc)}
  /\ UNCHANGED ev
  /\ UNCHANGED <<modalVisible, downloadProgress, currentlyDownloading, dialogs,
                 nextDownload, nextDialog, notices, started, notified, failed>>
  /\ alert' = "none"

\* RNFS.exists(modelsDir) resolves (ensureModelsDir lines 59-63)
ExistsDirResolves(i) ==
  \E d \in {x \in downloads : x.id = i /\ x.pc = "existsDir"} :
    /\ Awaits(d, IF dirExists THEN "existsFile" ELSE "mkdir")
    /\ UNCHANGED <<dirExists, files>>
    /\ UNCHANGED <<llmVars, appVars>>
    /\ UNCHANGED <<call, returns>>

\* RNFS.mkdir(modelsDir) resolves (ensureModelsDir lines 61-62)
MkdirResolves(i) ==
  \E d \in {x \in downloads : x.id = i /\ x.pc = "mkdir"} :
    /\ dirExists' = TRUE
    /\ Awaits(d, "existsFile")
    /\ UNCHANGED files
    /\ UNCHANGED <<llmVars, appVars>>
    /\ UNCHANGED <<call, returns>>

\* RNFS.exists or RNFS.mkdir rejects (ensureModelsDir lines 64-67)
EnsureDirFails(i) ==
  \E d \in {x \in downloads : x.id = i /\ x.pc \in {"existsDir", "mkdir"}} :
    /\ Throws(d)
    /\ UNCHANGED <<dirExists, files>>
    /\ UNCHANGED <<llmVars, appVars>>

\* ExistsFileResolves without the short-circuit of downloadModel
ExistsFileResolves_AlwaysTransfers(i, err) ==
  \E d \in {x \in downloads : x.id = i /\ x.pc = "existsFile"} :
    /\ Awaits(d, "transfer")
    /\ call' = IF d.id = Direct THEN [call EXCEPT !.err = err] ELSE call
    /\ UNCHANGED returns
    /\ UNCHANGED <<dirExists, files>>
    /\ UNCHANGED <<llmVars, appVars>>

\* RNFS.exists(modelPath) resolves or rejects (checkModelExists lines
\* 41-46; downloadModel lines 79-99): err says that it rejects
ExistsFileResolves(i, err) ==
  \E d \in {x \in downloads : x.id = i /\ x.pc = "existsFile"} :
    /\ IF ~err /\ d.model \in files
       THEN Completes(d)
       ELSE /\ Awaits(d, "transfer")
            /\ call' = IF d.id = Direct THEN [call EXCEPT !.err = err] ELSE call
            /\ UNCHANGED returns
    /\ UNCHANGED <<dirExists, files>>
    /\ UNCHANGED <<llmVars, appVars>>

\* the transport reports progress (downloadModel lines 93-96,
\* ModelDownloader line 57)
TransferProgress(i, p) ==
  \E d \in {x \in downloads : x.id = i /\ x.pc = "transfer"} :
    /\ downloadProgress' = [downloadProgress EXCEPT ![d.model] = p]
    /\ UNCHANGED ev
    /\ UNCHANGED <<dirExists, files, modalVisible, currentlyDownloading, dialogs,
                   downloads, nextDownload, nextDialog, notices, started, notified, failed>>
    /\ alert' = "none"
    /\ UNCHANGED <<llmVars, appVars>>
    /\ UNCHANGED <<call, returns>>

\* the transfer resolves with status 200 (downloadModel lines 101-103)
TransferSucceeds(i) ==
  \E d \in {x \in downloads : x.id = i /\ x.pc = "transfer"} :
    /\ files' = files \cup {d.model}
    /\ Completes(d)
    /\ UNCHANGED dirExists
    /\ UNCHANGED <<llmVars, appVars>>

\* the transfer resolves with another status or rejects (downloadModel
\* lines 104-110); leaves says that the transport left a file at the
\* target path
TransferFails(i, leaves) ==
  \E d \in {x \in downloads : x.id = i /\ x.pc = "transfer"} :
    /\ files' = IF leaves THEN files \cup {d.model} ELSE files
    /\ Throws(d)
    /\ UNCHANGED dirExists
    /\ UNCHANGED <<llmVars, appVars>>

\* the user presses OK on the i-th open completion notice (lines 64-70);
\* when the App renders the ModelDownloader, onModelDownloaded is the
\* callback of App lines 93-96 / 122-124
AckComplete(i) ==
  /\ i \in 1..Len(notices)
  /\ notices' = RemoveAt(notices, i)
  /\ notified' = Append(notified, notices[i])
  /\ modalVisible' = FALSE
  /\ UNCHANGED ev
  /\ UNCHANGED <<dirExists, files, downloadProgress, currentlyDownloading, dialogs,
                 downloads, nextDownload, nextDialog, started, failed>>
  /\ alert' = "none"
  /\ IF isLoading
     THEN UNCHANGED appVars
     ELSE /\ appModelPath' = notices[i].path
          /\ error' = ""
          /\ UNCHANGED isLoading
  /\ UNCHANGED llmVars
  /\ UNCHANGED <<call, returns>>

NextDownload ==
  \/ OpenModal
  \/ CloseModal
  \/ \E m \in availableModels : handleDownload(m)
  \/ \E i \in 1..MaxDialogs : AnswerCancel(i)
  \/ \E i \in 1..MaxDialogs : AnswerDownload(i)
  \/ \E i \in 1..MaxDialogs : ExistsDirResolves(i)
  \/ \E i \in 1..MaxDialogs : MkdirResolves(i)
  \/ \E i \in 1..MaxDialogs : EnsureDirFails(i)
  \/ \E i \in 1..MaxDialogs : \E err \in BOOLEAN : ExistsFileResolves(i, err)
  \/ \E i \in 1..MaxDialogs : \E p \in Fractions : TransferProgress(i, p)
  \/ \E i \in 1..MaxDialogs : TransferSucceeds(i)
  \/ \E i \in 1..MaxDialogs : \E leaves \in BOOLEAN : TransferFails(i, leaves)
  \/ \E i \in 1..MaxDialogs : AckComplete(i)

SpecDownload == Init /\ [][NextDownload]_vars

(***************************************************************************)
(* A caller of the Model Store other than the ModelDownloader: it calls    *)
(* one function at a time and awaits it.                                   *)
(***************************************************************************)
\* the orders in which RNFS.readDir may list the entries S
Listings(S) ==
  {s \in [1..Cardinality(S) -> S] : \A i, j \in 1..Cardinality(S) : i # j => s[i] # s[j]}

\* the filter of getLocalModels testing for a directory instead of a file
KeepsModel_NotFile(name) == ~IsFile(name) /\ EndsWithGguf(name)

\* getLocalModels lines 119-121
KeepsModel(name) == IsFile(name) /\ EndsWithGguf(name)
FilterModels(items) == SelectSeq(items, KeepsModel)

\* the caller calls downloadModel(model) with no progress callback: it runs
\* up to RNFS.exists(modelsDir) in ensureModelsDir
downloadModel(model) ==
  /\ call = NoCall
  /\ call' = [NoCall EXCEPT !.fn = "downloadModel", !.arg = model, !.by = "caller"]
  /\ downloads' = downloads \cup {Download(Direct, model, "existsDir")}
  /\ alert' = "none"
  /\ UNCHANGED <<dirExists, files, modalVisible, downloadProgress, currentlyDownloading,
                 dialogs, nextDownload, nextDialog, notices, started, notified, failed, returns>>
  /\ UNCHANGED ev
  /\ UNCHANGED <<llmVars, appVars>>

\* the caller calls getLocalModels(): it runs up to RNFS.exists(modelsDir)
\* in ensureModelsDir (lines 114-116, 55-59)
getLocalModels ==
  /\ call = NoCall
  /\ call' = [NoCall EXCEPT !.fn = "getLocalModels", !.pc = "existsDir", !.by = "caller"]
  /\ alert' = "none"
  /\ UNCHANGED <<dirExists, files, modalVisible, downloadProgress, currentlyDownloading,
                 dialogs, downloads, nextDownload, nextDialog, notices, started, notified,
                 failed, returns>>
  /\ UNCHANGED ev
  /\ UNCHANGED <<llmVars, appVars>>

\* the caller calls checkModelExists(modelFileName): it runs up to
\* RNFS.exists(modelPath) (lines 37-42)
checkModelExists(modelFileName) ==
  /\ call = NoCall
  /\ call' = [NoCall EXCEPT !.fn = "checkModelExists", !.arg = modelFileName,
                            !.pc = "exists", !.by = "caller"]
  /\ alert' = "none"
  /\ UNCHANGED <<dirExists, files, modalVisible, downloadProgress, currentlyDownloading,
                 dialogs, downloads, nextDownload, nextDialog, notices, started, notified,
                 failed, returns>>
  /\ UNCHANGED ev
  /\ UNCHANGED <<llmVars, appVars>>

\* ListReturns with App using the last discovered model
ListReturns_UsesLast(names, err) ==
  /\ returns' = Push(returns, Return("getLocalModels", "", "returned", "", names, FALSE, FALSE, err))
  /\ call' = NoCall
  /\ IF call.by = "App"
     THEN /\ isLoading' = FALSE
          /\ IF Len(names) > 0
             THEN /\ appModelPath' = getModelPath(names[Len(names)])
                  /\ alert' = "none"
                  /\ UNCHANGED error
             ELSE /\ error' = NoModelsText
                  /\ alert' = "No Models Found"
                  /\ UNCHANGED appModelPath
     ELSE /\ alert' = "none"
          /\ UNCHANGED appVars
  /\ UNCHANGED <<files, modalVisible, downloadProgress, currentlyDownloading,
                 dialogs, downloads, nextDownload, nextDialog, notices, started, notified, failed>>
  /\ UNCHANGED ev
  /\ UNCHANGED llmVars

\* getLocalModels returns names to its caller (lines 119-121, 124); err
\* says that it came through the catch block.  When the caller is App,
\* checkModels continues (App lines 40-58).
ListReturns(names, err) ==
  /\ returns' = Push(returns, Return("getLocalModels", "", "returned", "", names, FALSE, FALSE, err))
  /\ call' = NoCall
  /\ IF call.by = "App"
     THEN /\ isLoading' = FALSE
          /\ IF Len(names) > 0
             THEN /\ appModelPath' = getModelPath(names[1])
                  /\ alert' = "none"
                  /\ UNCHANGED error
             ELSE /\ error' = NoModelsText
                  /\ alert' = "No Models Found"
                  /\ UNCHANGED appModelPath
     ELSE /\ alert' = "none"
          /\ UNCHANGED appVars
  /\ UNCHANGED <<files, modalVisible, downloadProgress, currentlyDownloading,
                 dialogs, downloads, nextDownload, nextDialog, notices, started, notified, failed>>
  /\ UNCHANGED ev
  /\ UNCHANGED llmVars

\* getLocalModels awaits the native operation pc
ListAwaits(pc) ==
  /\ call' = [call EXCEPT !.pc = pc]
  /\ alert' = "none"
  /\ UNCHANGED <<files, modalVisible, downloadProgress, currentlyDownloading,
                 dialogs, downloads, nextDownload, nextDialog, notices, started, notified,
                 failed, returns>>
  /\ UNCHANGED ev
  /\ UNCHANGED <<llmVars, appVars>>

\* RNFS.exists(modelsDir) resolves in getLocalModels (ensureModelsDir
\* lines 59-63)
ListExistsDirResolves ==
  /\ call.fn = "getLocalModels" /\ call.pc = "existsDir"
  /\ ListAwaits(IF dirExists THEN "readDir" ELSE "mkdir")
  /\ UNCHANGED dirExists

\* RNFS.mkdir(modelsDir) resolves in getLocalModels (lines 61-62)
ListMkdirResolves ==
  /\ call.fn = "getLocalModels" /\ call.pc = "mkdir"
  /\ dirExists' = TRUE
  /\ ListAwaits("readDir")

\* ListFails with the error of ensureModelsDir escaping to the caller
ListFails_Rethrows ==
  /\ call.fn = "getLocalModels" /\ call.pc \in {"existsDir", "mkdir", "readDir"}
  /\ IF call.pc = "readDir"
     THEN ListReturns(<<>>, TRUE)
     ELSE /\ returns' = Push(returns, Return("getLocalModels", "", "threw", "", <<>>, FALSE, FALSE, TRUE))
          /\ call' = NoCall
          /\ alert' = "none"
          /\ UNCHANGED <<files, modalVisible, downloadProgress, currentlyDownloading,
                         dialogs, downloads, nextDownload, nextDialog, notices, started,
                         notified, failed>>
          /\ UNCHANGED ev
          /\ UNCHANGED <<llmVars, appVars>>
  /\ UNCHANGED dirExists

\* RNFS.exists, RNFS.mkdir or RNFS.readDir rejects in getLocalModels
\* (lines 64-67, 122-125)
ListFails ==
  /\ call.fn = "getLocalModels" /\ call.pc \in {"existsDir", "mkdir", "readDir"}
  /\ ListReturns(<<>>, TRUE)
  /\ UNCHANGED dirExists

\* RNFS.readDir(modelsDir) resolves (lines 118-121)
ListReadDirResolves ==
  /\ call.fn = "getLocalModels" /\ call.pc = "readDir"
  /\ \E items \in Listings(files) : ListReturns(FilterModels(items), FALSE)
  /\ UNCHANGED dirExists

\* RNFS.exists(modelPath) resolves or rejects in checkModelExists (lines
\* 42-46): err says that it rejects
ExistsResolves(err) ==
  /\ call.fn = "checkModelExists" /\ call.pc = "exists"
  /\ returns' = Push(returns, Return("checkModelExists", call.arg, "returned", "", <<>>,
                                     ~err /\ call.arg \in files, FALSE, err))
  /\ call' = NoCall
  /\ alert' = "none"
  /\ UNCHANGED <<dirExists, files, modalVisible, downloadProgress, currentlyDownloading,
                 dialogs, downloads, nextDownload, nextDialog, notices, started, notified, failed>>
  /\ UNCHANGED ev
  /\ UNCHANGED <<llmVars, appVars>>

\* the models directory when the caller starts: absent, empty, or holding
\* any entries
AnyDirectory ==
  /\ files \in SUBSET Entries
  /\ dirExists \in (IF files = {} THEN BOOLEAN ELSE {TRUE})

InitStore == AnyDirectory /\ Started

NextStore ==
  \/ \E m \in availableModels : downloadModel(m)
  \/ getLocalModels
  \/ \E m \in availableModels : checkModelExists(m)
  \/ ExistsDirResolves(Direct)
  \/ MkdirResolves(Direct)
  \/ EnsureDirFails(Direct)
  \/ \E err \in BOOLEAN : ExistsFileResolves(Direct, err)
  \/ TransferSucceeds(Direct)
  \/ \E leaves \in BOOLEAN : TransferFails(Direct, leaves)
  \/ ListExistsDirResolves
  \/ ListMkdirResolves
  \/ ListFails
  \/ ListReadDirResolves
  \/ \E err \in BOOLEAN : ExistsResolves(err)

SpecStore == InitStore /\ [][NextStore]_vars

(***************************************************************************)
(* App (src/unnamed/part_003): the App Shell                               *)
(***************************************************************************)
\* what App renders (lines 66-130)
Shows ==
  IF isLoading THEN "loading"
  ELSE IF error # "" THEN "downloader"
  ELSE IF appModelPath # "" THEN "chat"
  ELSE "downloader"

\* App mounts: its effect runs checkModels up to the first await of
\* getLocalModels (App lines 34-38, 62)
checkModels ==
  /\ isLoading
  /\ call = NoCall
  /\ call' = [NoCall EXCEPT !.fn = "getLocalModels", !.pc = "existsDir", !.by = "App"]
  /\ alert' = "none"
  /\ UNCHANGED <<dirExists, files, modalVisible, downloadProgress, currentlyDownloading,
                 dialogs, downloads, nextDownload, nextDialog, notices, started, notified,
                 failed, returns>>
  /\ UNCHANGED ev
  /\ UNCHANGED <<llmVars, appVars>>

\* events of the ModelDownloader that App renders (lines 92-98, 121-126)
AppOpenModal == Shows = "downloader" /\ OpenModal
AppCloseModal == Shows = "downloader" /\ CloseModal
AppHandleDownload(model) ==
  /\ Shows = "downloader"
  /\ nextDialog < MaxAppDialogs
  /\ handleDownload(model)

\* App renders AIChat with its modelPath (lines 110-115)
AppMountsChat ==
  /\ Shows = "chat"
  /\ Mount(appModelPath)

\* the modelPath of App changes while AIChat is rendered
AppRebindsChat ==
  /\ Shows = "chat"
  /\ Rebind(appModelPath)

InitApp == AnyDirectory /\ Started

NextApp ==
  \/ checkModels
  \/ ListExistsDirResolves
  \/ ListMkdirResolves
  \/ ListFails
  \/ ListReadDirResolves
  \/ AppOpenModal
  \/ AppCloseModal
  \/ \E m \in availableModels : AppHandleDownload(m)
  \/ \E i \in 1..MaxAppDialogs : AnswerCancel(i)
  \/ \E i \in 1..MaxAppDialogs : AnswerDownload(i)
  \/ \E i \in 1..MaxAppDialogs : ExistsDirResolves(i)
  \/ \E i \in 1..MaxAppDialogs : MkdirResolves(i)
  \/ \E i \in 1..MaxAppDialogs : EnsureDirFails(i)
  \/ \E i \in 1..MaxAppDialogs : \E err \in BOOLEAN : ExistsFileResolves(i, err)
  \/ \E i \in 1..MaxAppDialogs : \E p \in Fractions : TransferProgress(i, p)
  \/ \E i \in 1..MaxAppDialogs : TransferSucceeds(i)
  \/ \E i \in 1..MaxAppDialogs : \E leaves \in BOOLEAN : TransferFails(i, leaves)
  \/ \E i \in 1..MaxAppDialogs : AckComplete(i)
  \/ AppMountsChat
  \/ AppRebindsChat
  \/ InitSucceeds
  \/ InitFails
  \/ ReleaseSucceeds
  \/ ReleaseFails

SpecApp == InitApp /\ [][NextApp]_vars

(***************************************************************************)
(* Properties                                                              *)
(***************************************************************************)

\* C1: in the Download UI Controller at most one download is active in
\* every reachable state: at most one downloadModel call started by
\* handleDownload is unresolved.
C1_SingleFlightDownload == Cardinality(downloads) <= 1

\* C2: in the Inference Session Manager at most one engine handle is live
\* (constructed and not yet released) at any time, for every sequence of
\* init and cleanup calls.
C2_AtMostOneLiveHandle == Cardinality(live) <= 1

\* C3: in the Chat Controller, on a change of the bound model path the
\* engine's release of the old handle and the engine's construction of the
\* new handle are never unresolved at the same time.
C3_ReleaseCompletesBeforeInit ==
  \A r \in Pending("release") : \A i \in Pending("init") :
    ~(r.inst # 0 /\ i.inst = r.inst /\ i.bind = r.bind + 1)

\* C4: when cleanup has returned the Inference Session Manager is
\* Uninitialized (no handle held, isInitialized false), also when the
\* engine's teardown raised an error.
C4_ReleaseLeavesUninitialized ==
  (ev.name = "cleanupReturned" \/ (ev.name = "cleanup" /\ ev.res = "noop"))
    => (context = Null /\ ~isInitialized)

\* C5: a generateResponse call issued after cleanup has returned (with no
\* init called or unresolved since) signals the not-initialized error and
\* sends no completion request; and generateResponse signals the
\* not-initialized error whenever the manager is Uninitialized.
C5_GenerateAfterRelease ==
  ev.name = "generate" =>
    /\ relSince => (ev.res = "notInitialized" /\ Pending("gen") = {})
    /\ (~isInitialized \/ context = Null) => ev.res = "notInitialized"

\* C6: the Chat Controller never has two generate requests unresolved at
\* the same time.
C6_OneGenerationInFlight == BagCardinality(OwnGenerations) <= 1

\* C7: a download request made while another download is active (a
\* downloadModel call is unresolved) is rejected: the user is notified, no
\* transfer is started and no dialog opened, and the active-download marker
\* and every descriptor's recorded progress are left unchanged.  A step of
\* handleDownload is the step that shows one of its two alerts.
C7_RejectedWhileActive ==
  [][(downloads # {} /\ alert' \in {"Download Model", "Download in Progress"})
       => /\ alert' = "Download in Progress"
          /\ UNCHANGED <<downloads, dialogs, currentlyDownloading, downloadProgress>>]_vars

\* C8: when downloadModel throws (the transport resolves with a
\* non-success status, or another step of the download fails) the user is
\* shown the failure alert, the marker is cleared, the embedding caller is
\* never notified of that download, and the next download request is
\* accepted.
C8_FailedNeverNotified ==
  \A k \in failed :
    /\ \A j \in 1..Len(notices) : notices[j].id # k
    /\ \A j \in 1..Len(notified) : notified[j].id # k
C8_FailureClearsLock ==
  /\ []C8_FailedNeverNotified
  /\ [][failed' # failed
         => (alert' = "Download Failed" /\ currentlyDownloading' = NoModel)]_vars
  /\ [][(alert = "Download Failed" /\ alert' \in {"Download Model", "Download in Progress"})
         => (alert' = "Download Model" /\ Len(dialogs') = Len(dialogs) + 1)]_vars
W8_DownloadFailed ==
  /\ alert = "Download Failed"
  /\ failed # {}
  /\ currentlyDownloading = NoModel
  /\ nextDialog < MaxDialogs

\* C9: onModelDownloaded is invoked with the final local path of a
\* download only when the user acknowledges its completion notice, never
\* before, and at most once per completed download.
C9_NotifiedInv ==
  \A k \in 1..Len(notified) :
    /\ notified[k].id \in 1..Len(started)
    /\ notified[k].path = getModelPath(started[notified[k].id])
    /\ \A j \in 1..Len(notified) : j # k => notified[j].id # notified[k].id
    /\ \A j \in 1..Len(notices) : notices[j].id # notified[k].id
    /\ \A d \in downloads : d.id # notified[k].id
C9_NotifiedOnlyAfterAck ==
  /\ []C9_NotifiedInv
  /\ [][notified' # notified
         => \E k \in 1..Len(notices) :
              /\ notified' = Append(notified, notices[k])
              /\ notices' = RemoveAt(notices, k)
              /\ alert' = "none"]_vars
W9_Acknowledged ==
  /\ Len(notified) >= 1
  /\ notified[Len(notified)].path = getModelPath(started[notified[Len(notified)].id])
  /\ alert = "none"
  /\ ~modalVisible

\* C10: for every message the user sends the Chat Controller appends
\* exactly two entries: the user's message in the step that sends it, then
\* the engine's response or the fallback message when generateResponse
\* settles; the processing flag is false once that has happened.
C10_TwoEntriesPerMessage ==
  [][/\ (ev'.name = "onSend" /\ ev'.res = "sent")
         => (messages' = <<UserMessage(ev'.val)>> \o messages /\ isProcessing')
     /\ (ev'.name = "onSend" /\ ev'.res = "notInitialized")
         => /\ messages' = <<AiMessage(FallbackText), UserMessage(ev'.val)>> \o messages
            /\ ~isProcessing'
     /\ (ev'.name = "generateReturned" /\ mounted /\ ev'.of = inst)
         => /\ messages' = <<AiMessage(IF ev'.res = "error" THEN FallbackText ELSE ev'.val)>> \o messages
            /\ ~isProcessing']_vars
W10_FallbackAppended ==
  /\ ev.name = "generateReturned" /\ ev.res = "error"
  /\ mounted /\ ev.of = inst
  /\ Len(messages) >= 2
  /\ messages[1] = AiMessage(FallbackText)
  /\ messages[2].user = 1
  /\ ~isProcessing

\* C11: the chat message list is append-only: every step of a mounted
\* Chat Controller (send, response, fallback, successful initialization on
\* first bind or re-bind) keeps the entries that were present, in their
\* order, and only adds entries in front of them (the list is kept newest
\* first).
C11_MessagesAppendOnly ==
  [][(mounted /\ mounted' /\ inst' = inst)
       => /\ Len(messages') >= Len(messages)
          /\ SubSeq(messages', Len(messages') - Len(messages) + 1, Len(messages')) = messages]_vars

\* C12: init never throws: when the engine's construction fails init
\* returns false and the manager is Uninitialized afterwards (no handle
\* held), whatever its state was before, and a generateResponse that
\* follows signals the not-initialized error without a completion request.
C12_InitFailureUninitialized ==
  /\ [][(ev'.name = "initReturned" /\ ev'.res = "false")
          => (context' = Null /\ ~isInitialized')]_vars
  /\ [][(ev.name = "initReturned" /\ ev.res = "false" /\ ev'.name = "generate")
          => (ev'.res = "notInitialized" /\ ops' = ops)]_vars
W12_FailedAfterReady ==
  /\ ev.name = "initReturned" /\ ev.res = "false"
  /\ live # {}
  /\ context = Null /\ ~isInitialized

\* C13: when initialization fails the Chat Controller records the
\* initialization-error state and adds no welcome message, and while it is
\* in the initialization-error state no completion request is issued for a
\* message the user sends.
C13_InitErrorNoChatLoop ==
  [][/\ (ev'.name = "initReturned" /\ ev'.res = "false" /\ mounted /\ ev'.of = inst)
          => (initError' = InitFailedText /\ messages' = messages)
     /\ (ev'.name = "rebind" /\ ev'.res = "false")
          => (initError' = InitFailedText /\ messages' = messages)
     /\ (ev'.name = "mount" /\ ev'.res = "false")
          => (initError' = InitFailedText /\ messages' = <<>>)
     /\ (initError # "" /\ ev'.name = "onSend")
          => ops' = ops]_vars

\* C14: the sequence init(A), cleanup(), init(B) with B # A, each call
\* awaited before the next and each engine operation succeeding, binds
\* only the second model: when the second init has returned true the
\* manager is Ready, the handle it holds is the live handle constructed for
\* B, and the handle constructed for A has been released.
C14_RebindsSecondModel ==
  awaited.step = 6
    => /\ isInitialized
       /\ context # Null /\ context \in live
       /\ context.model = awaited.pathB /\ context.model # awaited.pathA
       /\ context.hid # awaited.hA
       /\ \A h \in live : h.hid # awaited.hA
W14_SequenceDone ==
  /\ awaited.step = 6
  /\ ev.name = "initReturned" /\ ev.res = "true"
  /\ awaited.pathB # awaited.pathA

\* the last return of the caller of the Model Store
LastReturn == returns[Len(returns)]
\* the caller's last two calls were downloadModel of the same descriptor
\* and both returned a path
TwoDownloadsInSequence ==
  /\ Len(returns) = 2
  /\ returns[1].fn = "downloadModel" /\ returns[2].fn = "downloadModel"
  /\ returns[1].arg = returns[2].arg
  /\ returns[1].res = "returned" /\ returns[2].res = "returned"

\* C15: downloadModel is idempotent: two calls in sequence for the same
\* descriptor return the same local path and the second call performs no
\* transfer.
C15_DownloadIdempotent ==
  TwoDownloadsInSequence
    => (returns[1].path = returns[2].path /\ ~returns[2].transferred)

\* C15 (amended): two calls in sequence for the same descriptor return the
\* same local path, and the second call performs no transfer provided its
\* existence check did not fail.
C15_IdempotentUnlessCheckFails ==
  TwoDownloadsInSequence
    => /\ returns[1].path = returns[2].path
       /\ ~returns[2].err => ~returns[2].transferred
W15_SecondShortCircuits ==
  /\ TwoDownloadsInSequence
  /\ returns[1].transferred /\ ~returns[2].transferred
  /\ returns[2].path = getModelPath(returns[2].arg)

\* C16: with an empty models directory getLocalModels returns the empty
\* sequence; after downloadModel(D) has succeeded from an empty directory
\* getLocalModels returns exactly [D.localPath]; checkModelExists(F)
\* returns true iff a file F exists in the models directory.
C16_ListAfterDownload ==
  /\ (returns # <<>> /\ LastReturn.fn = "getLocalModels" /\ files = {})
       => LastReturn.names = <<>>
  /\ \A D \in availableModels :
       (/\ Len(returns) = 2
        /\ returns[1].fn = "downloadModel" /\ returns[1].arg = D
        /\ returns[1].res = "returned"
        /\ returns[2].fn = "getLocalModels"
        /\ files = {D})
         => returns[2].names = <<D>>
  /\ (returns # <<>> /\ LastReturn.fn = "checkModelExists")
       => (LastReturn.exists <=> LastReturn.arg \in files)

\* C16 (amended): the same, for calls of getLocalModels and
\* checkModelExists in which no I/O step failed.
C16_ListAfterDownloadNoError ==
  /\ (returns # <<>> /\ LastReturn.fn = "getLocalModels" /\ files = {})
       => LastReturn.names = <<>>
  /\ \A D \in availableModels :
       (/\ Len(returns) = 2
        /\ returns[1].fn = "downloadModel" /\ returns[1].arg = D
        /\ returns[1].res = "returned"
        /\ returns[2].fn = "getLocalModels" /\ ~returns[2].err
        /\ files = {D})
         => returns[2].names = <<D>>
  /\ (returns # <<>> /\ LastReturn.fn = "checkModelExists" /\ ~LastReturn.err)
       => (LastReturn.exists <=> LastReturn.arg \in files)
W16_ListedAfterDownload ==
  /\ Len(returns) = 2
  /\ returns[1].fn = "downloadModel" /\ returns[1].res = "returned"
  /\ returns[1].transferred
  /\ returns[2].fn = "getLocalModels" /\ ~returns[2].err
  /\ files = {returns[1].arg}
  /\ returns[2].names = <<returns[1].arg>>

\* C17: getLocalModels never lets an error escape: it returns only names
\* that end with the model-file extension, and the empty sequence when an
\* I/O step (existence check, directory creation, directory read) failed.
C17_ListNeverThrows ==
  (returns # <<>> /\ LastReturn.fn = "getLocalModels")
    => /\ LastReturn.res = "returned"
       /\ \A k \in 1..Len(LastReturn.names) :
            /\ EndsWithGguf(LastReturn.names[k])
            /\ LastReturn.names[k] \in files
       /\ LastReturn.err => LastReturn.names = <<>>
W17_ListFailedSoftly ==
  /\ returns # <<>> /\ LastReturn.fn = "getLocalModels"
  /\ LastReturn.err /\ LastReturn.names = <<>>
  /\ \E m \in availableModels : m \in files

\* C18: on startup App asks the Model Store for the local models.  While
\* it waits nothing is mounted.  If none is found it shows the
\* ModelDownloader and does not mount AIChat until a download has been
\* acknowledged (then it shows AIChat with the acknowledged path);
\* otherwise it shows AIChat bound to the path of the first model found.
C18_StartupRouting ==
  /\ isLoading => (Shows = "loading" /\ ~mounted /\ notified = <<>>)
  /\ (~isLoading /\ returns[1].names = <<>> /\ notified = <<>>)
       => (Shows = "downloader" /\ ~mounted)
  /\ (~isLoading /\ returns[1].names = <<>> /\ notified # <<>>)
       => (Shows = "chat" /\ appModelPath = notified[Len(notified)].path)
  /\ (~isLoading /\ returns[1].names # <<>>)
       => /\ Shows = "chat"
          /\ appModelPath = getModelPath(returns[1].names[1])
          /\ mounted => modelPath = appModelPath
W18_ChatAfterAcknowledge ==
  /\ ~isLoading /\ returns[1].names = <<>>
  /\ mounted
  /\ Len(notified) = 1 /\ modelPath = notified[1].path

\* C19: generateResponse substitutes the prompt at a single point: the text
\* sent to the engine is the template with its first placeholder replaced
\* by the raw prompt text, unchanged, for every prompt, and the rest of the
\* template unmodified.
C19_RawPromptSubstituted ==
  (ev.name = "generate" /\ ev.res = "sent")
    => ev.val = <<DefaultTemplate[1]>> \o ev.prompt \o <<DefaultTemplate[3]>>

\* C20: once AIChat has unmounted (or its modelPath has changed) and every
\* operation in flight has resolved, no handle constructed for the
\* unmounted or previous binding is live: the only handle that may be live
\* is the one the mounted component is bound to.
C20_NoHandleLeftLive ==
  ops = EmptyBag => live \subseteq (IF mounted THEN {context} ELSE {})

\* C21: whenever the isInitialized state of AIChat is true and neither an
\* init nor a release is in flight, the LlamaService is Ready and the
\* handle it holds was constructed for the modelPath AIChat is bound to.
C21_ChatReadyMeansServiceReady ==
  (mounted /\ chatIsInitialized /\ Pending("init") = {} /\ Pending("release") = {})
    => /\ isInitialized
       /\ context # Null
       /\ context.model = modelPath

\* C22: the isProcessing state of AIChat is true in every state in which a
\* generateResponse call issued by its onSend is unresolved, and false when
\* none is.
C22_ProcessingIffGenerating ==
  mounted => (isProcessing <=> BagCardinality(OwnGenerations) > 0)

\* C23: init called with an empty or missing model path returns false
\* without calling the engine and leaves the manager's state unchanged.
C23_InitWithoutPathIsNoop ==
  [][(ev'.name = "init" /\ ev'.opt \in {Empty, Undefined, Absent})
       => /\ ev'.res = "false"
          /\ ops' = ops
          /\ UNCHANGED <<isInitialized, context, live>>]_vars

====
